---- MODULE Spec2Model ----
(***************************************************************************)
(* Model of the match-report extraction pipeline of football_data:         *)
(* src/core/models.py (MatchData, Features, MatchEvents, MatchStats) and   *)
(* src/scrapping/data_getters.py (EventsGetter, SquadsGetter,              *)
(* StatsGetter).  Python lists are sequences; list indices in the model    *)
(* are 1-based, so Python index k is model index k + 1.                    *)
(***************************************************************************)
EXTENDS Integers, Sequences, FiniteSets, TLC

VARIABLES soup, match_info, events_getter, squads_getter, stats_getter, pc, exc

vars == <<soup, match_info, events_getter, squads_getter, stats_getter, pc, exc>>

(***************************************************************************)
(* Bounds of the explored documents.                                       *)
(***************************************************************************)
MaxNodes == 2
MaxLineups == 3
MaxRows == 23
MaxTables == 3
MaxHeadings == 3
MaxTabs == 3
MaxAppends == 2

(***************************************************************************)
(* Python values.  An attribute that holds either None or a list is kept   *)
(* as a tagged record, so that the two can be told apart.                  *)
(***************************************************************************)
None == [py |-> "None"]
PyList(items) == [py |-> "list", items |-> items]

(* list[:b] and list[a:], on Python's 0-based bounds                       *)
SliceTo(list, b) == SubSeq(list, 1, IF b < Len(list) THEN b ELSE Len(list))
SliceFrom(list, a) == IF a >= Len(list) THEN <<>> ELSE SubSeq(list, a + 1, Len(list))

(* setattr(obj, name, value) on an object kept as a record                 *)
SetAttr(obj, name, value) ==
    [n \in DOMAIN obj \cup {name} |-> IF n = name THEN value ELSE obj[n]]

(* No exception has been raised.                                           *)
NoException == "none"

(* A getter that is not constructed yet.                                   *)
NoGetter == [constructed |-> FALSE]

SeqsUpTo(S, n) == UNION {[1..k -> S] : k \in 0..n}

(***************************************************************************)
(* The parsed document.  A raw event node carries the class token of its   *)
(* event_icon, the <a> elements it holds (text and href) and its minute.   *)
(***************************************************************************)
EventKinds == {"goal", "substitute_in", "yellow_card"}
Players == {[text |-> "A", href |-> "/A"], [text |-> "B", href |-> "/B"]}
Minutes == {"12", "45+1"}
EventNodes == [kind : EventKinds, a : SeqsUpTo(Players, 2), minute : Minutes]

(* A lineup node holds one table of n rows: lineup node k, rows 0..n-1.    *)
LineupNode(k, n) == [tables |-> <<[i \in 1..n |-> [lineup |-> k, row |-> i - 1]]>>]
RowCounts == (MaxRows - 3)..MaxRows

(* A table container holds one statistics table.                           *)
TableNode(k) == [tables |-> <<[i \in 1..1 |-> [table_container |-> k, row |-> 0]]>>]

(* pd.read_html(str(node)): the tables found in the node.                  *)
read_html(node) == node.tables

(* Heading (h2) and tab-label (a.sr_preset) nodes; a text is a sequence of *)
(* words.                                                                  *)
HeadingTexts == {<<"Player", "Stats">>, <<"Shots">>, <<"Team", "Stats">>, <<"Lineup">>}
TabTexts == {<<"Summary">>, <<"Passing">>}
HeadingNodes == [text : HeadingTexts]
TabNodes == [text : TabTexts]

EmptySoup ==
    [event_a |-> <<>>, event_b |-> <<>>, lineup |-> <<>>,
     table_container |-> <<>>, h2 |-> <<>>, sr_preset |-> <<>>]

(***************************************************************************)
(* models.py                                                               *)
(***************************************************************************)
MatchEvents == [event_types |-> <<>>, player_names |-> <<>>, player_links |-> <<>>, minutes |-> <<>>]

MatchStats == [table_names |-> <<>>, tab_names |-> <<>>, table |-> <<>>]

Features(data, columns) == [data |-> data, columns |-> columns]

(* Features.__getitem__: list.index returns the first position of name.    *)
RECURSIVE ListIndex(_, _, _)
ListIndex(columns, name, i) ==
    IF i > Len(columns) THEN 0
    ELSE IF columns[i] = name THEN i
    ELSE ListIndex(columns, name, i + 1)

Features_getitem(f, name) == f.data[ListIndex(f.columns, name, 1)]

add_features(f, values, names) == [f EXCEPT !.data = values, !.columns = names]

append_feature(f, value, name) ==
    [f EXCEPT !.data = Append(@, value), !.columns = Append(@, name)]

TeamInfo ==
    [squad |-> Features(<<>>, <<>>), bench |-> Features(<<>>, <<>>),
     events |-> MatchEvents, stats |-> MatchStats]

MatchData ==
    [home_info |-> TeamInfo, away_info |-> TeamInfo,
     debug_info |-> Features(<<>>, <<>>), match_info |-> Features(<<>>, <<>>)]

(* The storage each property getter / setter of MatchData goes to.         *)
home_squad_getter == "home_info"
home_bench_getter == "home_info"
home_events_getter == "home_info"
home_stats_setter == "home_info"
away_squad_getter == "home_info"
away_bench_getter == "home_info"
away_events_getter == "home_info"
away_stats_setter == "away_info"

squad_getter(team_type) == IF team_type = "home" THEN home_squad_getter ELSE away_squad_getter
bench_getter(team_type) == IF team_type = "home" THEN home_bench_getter ELSE away_bench_getter
stats_setter(team_type) == IF team_type = "home" THEN home_stats_setter ELSE away_stats_setter

(***************************************************************************)
(* EventsGetter                                                            *)
(***************************************************************************)
_get_event_time(event_content) ==
    [i \in 1..Len(event_content) |-> event_content[i].minute]

_get_event_types(event_content) ==
    [i \in 1..Len(event_content) |-> event_content[i].kind]

_get_event_player_name(event_content) ==
    [i \in 1..Len(event_content) |->
        [k \in 1..Len(event_content[i].a) |-> event_content[i].a[k].text]]

_get_event_player_link(event_content) ==
    [i \in 1..Len(event_content) |->
        [k \in 1..Len(event_content[i].a) |-> event_content[i].a[k].href]]

(* events_variable_values[idx] keeps its first element, the second one is  *)
(* appended as a list of its own.                                          *)
_split_two_players(values, idx) ==
    Append([values EXCEPT ![idx] = SubSeq(@, 1, 1)], <<values[idx][2]>>)

(* np.where(np.array(event_types) == basic_event_type)[0]                  *)
RECURSIVE WhereFrom(_, _, _)
WhereFrom(arr, value, i) ==
    IF i > Len(arr) THEN <<>>
    ELSE (IF arr[i] = value THEN <<i>> ELSE <<>>) \o WhereFrom(arr, value, i + 1)

NpWhere(arr, value) == WhereFrom(arr, value, 1)

SplitAt(events, idx, new_event_type) ==
    IF Len(events.player_names[idx]) > 1
    THEN [event_types |-> Append(events.event_types, new_event_type),
          player_names |-> _split_two_players(events.player_names, idx),
          player_links |-> _split_two_players(events.player_links, idx),
          minutes |-> Append(events.minutes, events.minutes[idx])]
    ELSE events

RECURSIVE SplitLoop(_, _, _)
SplitLoop(events, indices, new_event_type) ==
    IF indices = <<>> THEN events
    ELSE SplitLoop(SplitAt(events, Head(indices), new_event_type), Tail(indices), new_event_type)

_get_event_second_player(events, basic_event_type, new_event_type) ==
    SplitLoop(events, NpWhere(events.event_types, basic_event_type), new_event_type)

(* itertools.chain over the lists                                               *)
RECURSIVE Chain(_)
Chain(lists) == IF lists = <<>> THEN <<>> ELSE Head(lists) \o Chain(Tail(lists))

(* _prepare_events splitting the goal nodes before the substitute_in ones.  *)
_prepare_events_goal_first(event_content) ==
    LET e0 == [event_types |-> _get_event_types(event_content),
               player_names |-> _get_event_player_name(event_content),
               player_links |-> _get_event_player_link(event_content),
               minutes |-> _get_event_time(event_content)]
        e1 == _get_event_second_player(e0, "goal", "assist")
        e2 == _get_event_second_player(e1, "substitute_in", "substitute_out")
    IN  [e2 EXCEPT !.player_names = Chain(e2.player_names)]

_prepare_events(event_content) ==
    LET e0 == [event_types |-> _get_event_types(event_content),
               player_names |-> _get_event_player_name(event_content),
               player_links |-> _get_event_player_link(event_content),
               minutes |-> _get_event_time(event_content)]
        e1 == _get_event_second_player(e0, "substitute_in", "substitute_out")
        e2 == _get_event_second_player(e1, "goal", "assist")
    IN  [e2 EXCEPT !.player_names = Chain(e2.player_names)]

(* Defined by the class, called by none of its methods.                    *)
_verify_event_names(g) ==
    IF g._first_team_events_contest = <<>> /\ g._second_team_events_contest = <<>>
    THEN [g EXCEPT !._events_missing = @ + 1]
    ELSE g

events_missing(g) == g._events_missing

EventsGetter_init ==
    /\ pc.events = "new"
    /\ events_getter' =
        [constructed |-> TRUE,
         _first_team_events_contest |-> soup.event_a,
         _second_team_events_contest |-> soup.event_b,
         _events_missing |-> 0,
         _birth_date_missing |-> 0]
    /\ pc' = [pc EXCEPT !.events = "ready"]
    /\ UNCHANGED <<soup, match_info, squads_getter, stats_getter, exc>>

(* get_events, first call of _prepare_events (on match_info.home_events)   *)
get_events_home ==
    /\ pc.events = "ready"
    /\ match_info' =
        [match_info EXCEPT ![home_events_getter].events =
            _prepare_events(events_getter._first_team_events_contest)]
    /\ pc' = [pc EXCEPT !.events = "home_prepared"]
    /\ UNCHANGED <<soup, events_getter, squads_getter, stats_getter, exc>>

(* get_events, second call of _prepare_events (on match_info.away_events)  *)
get_events_away ==
    /\ pc.events = "home_prepared"
    /\ match_info' =
        [match_info EXCEPT ![away_events_getter].events =
            _prepare_events(events_getter._second_team_events_contest)]
    /\ pc' = [pc EXCEPT !.events = "done"]
    /\ UNCHANGED <<soup, events_getter, squads_getter, stats_getter, exc>>

InitCommon ==
    /\ match_info = MatchData
    /\ events_getter = NoGetter
    /\ squads_getter = NoGetter
    /\ stats_getter = NoGetter
    /\ pc = [events |-> "new", squads |-> "new", stats |-> "new"]
    /\ exc = [events |-> NoException, squads |-> NoException, stats |-> NoException]

InitEvents ==
    /\ \E first \in SeqsUpTo(EventNodes, MaxNodes) :
       \E second \in SeqsUpTo(EventNodes, MaxNodes - Len(first)) :
          soup = [EmptySoup EXCEPT !.event_a = first, !.event_b = second]
    /\ InitCommon

NextEvents == EventsGetter_init \/ get_events_home \/ get_events_away

SpecEvents == InitEvents /\ [][NextEvents]_vars

(***************************************************************************)
(* SquadsGetter.  The methods thread st = [g, m, exc]: the getter, the     *)
(* MatchData it writes to, and the exception raised so far.                *)
(***************************************************************************)
SquadsGetter_init ==
    /\ pc.squads = "new"
    /\ squads_getter' =
        [constructed |-> TRUE,
         _lineups |-> soup.lineup,
         _home_squad |-> None,
         _away_squad |-> None,
         _lineups_missing |-> 0]
    /\ pc' = [pc EXCEPT !.squads = "ready"]
    /\ UNCHANGED <<soup, match_info, events_getter, stats_getter, exc>>

lineups_missing(g) == g._lineups_missing

(* _lineups_exists reporting 0 for a missing lineup list.                   *)
_lineups_exists_flag0(st) ==
    IF st.g._lineups = <<>>
    THEN [st EXCEPT !.g._lineups_missing = @ + 1,
                    !.m.debug_info = append_feature(@, 0, "lineups_missing")]
    ELSE IF Len(st.g._lineups) < 2
    THEN [st EXCEPT !.g._home_squad = PyList(read_html(st.g._lineups[1])),
                    !.exc = "IndexError"]
    ELSE [st EXCEPT !.g._home_squad = PyList(read_html(st.g._lineups[1])),
                    !.g._away_squad = PyList(read_html(st.g._lineups[2])),
                    !.m.debug_info = append_feature(@, 0, "lineups_missing")]

_lineups_exists(st) ==
    IF st.g._lineups = <<>>
    THEN [st EXCEPT !.g._lineups_missing = @ + 1,
                    !.m.debug_info = append_feature(@, 1, "lineups_missing")]
    ELSE IF Len(st.g._lineups) < 2
    THEN [st EXCEPT !.g._home_squad = PyList(read_html(st.g._lineups[1])),
                    !.exc = "IndexError"]
    ELSE [st EXCEPT !.g._home_squad = PyList(read_html(st.g._lineups[1])),
                    !.g._away_squad = PyList(read_html(st.g._lineups[2])),
                    !.m.debug_info = append_feature(@, 0, "lineups_missing")]

squad_columns == <<"shirt_number", "player">>

(* getattr(self.match_info, team_type + "_squad").add_features(            *)
(*     values=getattr(self, "_" + team_type + "_squad")[:11], ...)         *)
_separate_squad_first(st, team_type) ==
    LET attr == "_" \o team_type \o "_squad" IN
    IF attr \notin DOMAIN st.g THEN [st EXCEPT !.exc = "AttributeError"]
    ELSE IF st.g[attr].py = "None" THEN [st EXCEPT !.exc = "TypeError"]
    ELSE [st EXCEPT !.m[squad_getter(team_type)].squad =
              add_features(@, SliceTo(st.g[attr].items, 11), squad_columns)]

(* getattr(self.match_info, team_type + "_bench").add_features(            *)
(*     values=getattr(self, "_" + team_type + "_bench")[12:], ...)         *)
_separate_squad_bench(st, team_type) ==
    LET attr == "_" \o team_type \o "_bench" IN
    IF attr \notin DOMAIN st.g THEN [st EXCEPT !.exc = "AttributeError"]
    ELSE IF st.g[attr].py = "None" THEN [st EXCEPT !.exc = "TypeError"]
    ELSE [st EXCEPT !.m[bench_getter(team_type)].bench =
              add_features(@, SliceFrom(st.g[attr].items, 12), squad_columns)]

_separate_squad(st, team_type) ==
    LET s1 == _separate_squad_first(st, team_type) IN
    IF s1.exc # NoException THEN s1 ELSE _separate_squad_bench(s1, team_type)

get_teams_info_run(st) ==
    LET s1 == _lineups_exists(st) IN
    IF s1.exc # NoException THEN s1
    ELSE IF Features_getitem(s1.m.debug_info, "lineups_missing") = 0
    THEN LET s2 == _separate_squad(s1, "home") IN
         IF s2.exc # NoException THEN s2 ELSE _separate_squad(s2, "away")
    ELSE s1

get_teams_info ==
    /\ pc.squads = "ready"
    /\ LET st == get_teams_info_run([g |-> squads_getter, m |-> match_info, exc |-> NoException]) IN
       /\ squads_getter' = st.g
       /\ match_info' = st.m
       /\ exc' = [exc EXCEPT !.squads = st.exc]
       /\ pc' = [pc EXCEPT !.squads = IF st.exc = NoException THEN "done" ELSE "raised"]
    /\ UNCHANGED <<soup, events_getter, stats_getter>>

InitSquads ==
    /\ \E n \in 0..MaxLineups : \E rows \in [1..n -> RowCounts] :
          soup = [EmptySoup EXCEPT !.lineup = [k \in 1..n |-> LineupNode(k, rows[k])]]
    /\ InitCommon

NextSquads == SquadsGetter_init \/ get_teams_info

SpecSquads == InitSquads /\ [][NextSquads]_vars

(***************************************************************************)
(* StatsGetter                                                             *)
(***************************************************************************)
StatsGetter_init ==
    /\ pc.stats = "new"
    /\ stats_getter' =
        [constructed |-> TRUE,
         _tables |-> soup.table_container,
         _table_names |-> soup.h2,
         _tab_names |-> soup.sr_preset,
         _stats_missing |-> 0,
         _table_names_missing |-> 0,
         _tab_names_missing |-> 0]
    /\ pc' = [pc EXCEPT !.stats = "ready"]
    /\ UNCHANGED <<soup, match_info, events_getter, squads_getter, exc>>

stats_missing(g) == g._stats_missing
table_names_missing(g) == g._table_names_missing
tab_names_missing(g) == g._table_names_missing

_stats_exists(st) ==
    IF st.g._tables = <<>>
    THEN [st EXCEPT !.g._stats_missing = @ + 1,
                    !.m.debug_info = append_feature(@, 1, "stats_missing")]
    ELSE IF Len(st.g._tables) < 2
    THEN [st EXCEPT !.g = SetAttr(@, "_home_squad", PyList(read_html(st.g._tables[1]))),
                    !.exc = "IndexError"]
    ELSE [st EXCEPT !.g = SetAttr(SetAttr(@, "_home_squad", PyList(read_html(st.g._tables[1]))),
                                  "_away_squad", PyList(read_html(st.g._tables[2]))),
                    !.m.debug_info = append_feature(@, 0, "stats_missing")]

(* pattern in text, on texts kept as sequences of words                    *)
Contains(text, pattern) ==
    \E i \in 1..Len(text) :
        /\ i + Len(pattern) - 1 <= Len(text)
        /\ SubSeq(text, i, i + Len(pattern) - 1) = pattern

KeepTableName(header) ==
    /\ Contains(header.text, <<"Stats">>) \/ Contains(header.text, <<"Shots">>)
    /\ ~Contains(header.text, <<"Team", "Stats">>)

_clean_table_names(g) ==
    LET kept == SelectSeq(g._table_names, KeepTableName) IN
    [g EXCEPT !._table_names = [i \in 1..Len(kept) |-> kept[i].text]]

_clean_tab_names(g) == [g EXCEPT !._tab_names = [i \in 1..Len(@) |-> @[i].text]]

_table_names_exists(st) ==
    LET s1 == IF st.g._table_names = <<>>
              THEN [st EXCEPT !.g._table_names_missing = @ + 1]
              ELSE [st EXCEPT !.g = _clean_table_names(@)]
        table_names_missing_local == IF st.g._table_names = <<>> THEN 1 ELSE 0
    IN  [s1 EXCEPT !.m.debug_info =
            append_feature(append_feature(@, table_names_missing_local, "table_names_missing"),
                           s1.g._table_names, "table_names")]

_tab_names_exists(st) ==
    LET s1 == IF st.g._tab_names = <<>>
              THEN [st EXCEPT !.g._tab_names_missing = @ + 1]
              ELSE [st EXCEPT !.g = _clean_tab_names(@)]
        tab_names_missing_local == IF st.g._tab_names = <<>> THEN 1 ELSE 0
    IN  [s1 EXCEPT !.m.debug_info =
            append_feature(append_feature(@, tab_names_missing_local, "tab_names_missing"),
                           s1.g._tab_names, "tab_names")]

_clean_table(table) == Head(read_html(table))

MatchStats_parse_obj(obj) ==
    [table_names |-> obj.table_names, tab_names |-> obj.tab_names, table |-> obj.table]

(* The loop of convert_tables from position idx on; exc is set where an    *)
(* index is out of range.                                                  *)
RECURSIVE convert_loop(_, _, _)
convert_loop(g, team_stats, idx) ==
    IF idx > Len(g._tables) THEN [team_stats |-> team_stats, exc |-> NoException]
    ELSE IF idx > Len(g._table_names) THEN [team_stats |-> team_stats, exc |-> "IndexError"]
    ELSE IF g._tab_names # <<>> /\ idx > Len(g._tab_names)
    THEN [team_stats |-> team_stats, exc |-> "IndexError"]
    ELSE convert_loop(g,
            [table |-> Append(team_stats.table, _clean_table(g._tables[idx])),
             table_names |-> Append(team_stats.table_names, g._table_names[idx]),
             tab_names |-> IF g._tab_names # <<>>
                           THEN Append(team_stats.tab_names, g._tab_names[idx])
                           ELSE team_stats.tab_names],
            idx + 1)

convert_tables(st, team_type) ==
    LET r == convert_loop(st.g, [table_names |-> <<>>, tab_names |-> <<>>, table |-> <<>>], 1) IN
    IF r.exc # NoException THEN [st EXCEPT !.exc = r.exc]
    ELSE [st EXCEPT !.m[stats_setter(team_type)].stats = MatchStats_parse_obj(r.team_stats)]

_verify_components_length(st, team_type) ==
    IF Len(st.g._tables) = Len(st.g._table_names)
    THEN LET s1 == convert_tables(st, team_type) IN
         IF s1.exc # NoException THEN s1
         ELSE [s1 EXCEPT !.m.debug_info = append_feature(@, 0, "stats_components_length_miss")]
    ELSE [st EXCEPT !.m.debug_info = append_feature(@, 1, "stats_components_length_miss")]

get_stats_run(st) ==
    LET s1 == _stats_exists(st) IN
    IF s1.exc # NoException THEN s1
    ELSE _verify_components_length(_tab_names_exists(_table_names_exists(s1)), "home")

get_stats ==
    /\ pc.stats = "ready"
    /\ LET st == get_stats_run([g |-> stats_getter, m |-> match_info, exc |-> NoException]) IN
       /\ stats_getter' = st.g
       /\ match_info' = st.m
       /\ exc' = [exc EXCEPT !.stats = st.exc]
       /\ pc' = [pc EXCEPT !.stats = IF st.exc = NoException THEN "done" ELSE "raised"]
    /\ UNCHANGED <<soup, events_getter, squads_getter>>

InitStats ==
    /\ \E n \in 0..MaxTables :
       \E headings \in SeqsUpTo(HeadingNodes, MaxHeadings) :
       \E tabs \in SeqsUpTo(TabNodes, MaxTabs) :
          soup = [EmptySoup EXCEPT !.table_container = [k \in 1..n |-> TableNode(k)],
                                   !.h2 = headings,
                                   !.sr_preset = tabs]
    /\ InitCommon

NextStats == StatsGetter_init \/ get_stats

SpecStats == InitStats /\ [][NextStats]_vars


(***************************************************************************)
(* Properties of EventsGetter                                              *)
(***************************************************************************)
(* The event_content and the events object of the _prepare_events call     *)
(* that returned last.                                                     *)
PrepareReturned == pc.events \in {"home_prepared", "done"}

PreparedContent ==
    IF pc.events = "home_prepared"
    THEN events_getter._first_team_events_contest
    ELSE events_getter._second_team_events_contest

PreparedEvents ==
    IF pc.events = "home_prepared"
    THEN match_info[home_events_getter].events
    ELSE match_info[away_events_getter].events

(* The event read at index j of the four lists is (type, player, minute);  *)
(* a link kept as a one-element list counts as that link.                  *)
EventIs(events, j, type, player, minute) ==
    /\ j <= Len(events.event_types) /\ events.event_types[j] = type
    /\ j <= Len(events.minutes) /\ events.minutes[j] = minute
    /\ j <= Len(events.player_names) /\ events.player_names[j] = player.text
    /\ j <= Len(events.player_links) /\ events.player_links[j] = <<player.href>>

CountEvents(events, type, player, minute) ==
    Cardinality({j \in 1..Len(events.event_types) : EventIs(events, j, type, player, minute)})

(* Nodes of a kind whose k-th player pair is player, at minute.            *)
CountNodes(content, kind, k, player, minute) ==
    Cardinality({i \in 1..Len(content) :
        /\ content[i].kind = kind
        /\ content[i].minute = minute
        /\ Len(content[i].a) >= k
        /\ content[i].a[k] = player})

SecondType(kind) == IF kind = "goal" THEN "assist" ELSE "substitute_out"

(* C1: every goal (substitute_in) node with two player pairs yields        *)
(* exactly one goal (substitute_in) event holding its first pair and       *)
(* exactly one assist (substitute_out) event holding its second pair, both *)
(* at the node's minute: the events read index by index from the four      *)
(* lists are as many as the nodes that give rise to them.                  *)
C1_TwoPlayerNodeYieldsBothEvents ==
    PrepareReturned =>
        \A i \in 1..Len(PreparedContent) :
            LET node == PreparedContent[i] IN
            (node.kind \in {"goal", "substitute_in"} /\ Len(node.a) = 2) =>
                /\ CountEvents(PreparedEvents, node.kind, node.a[1], node.minute)
                     = CountNodes(PreparedContent, node.kind, 1, node.a[1], node.minute)
                /\ CountEvents(PreparedEvents, SecondType(node.kind), node.a[2], node.minute)
                     = CountNodes(PreparedContent, node.kind, 2, node.a[2], node.minute)

(* C2: after _prepare_events the four lists have the same length, a node   *)
(* without player references occupies its position in each of them with an *)
(* absent player, and no position holds two players.                       *)
C2_OnePlayerSlotPerEvent ==
    PrepareReturned =>
        LET events == PreparedEvents IN
        /\ Len(events.player_names) = Len(events.event_types)
        /\ Len(events.player_links) = Len(events.event_types)
        /\ Len(events.minutes) = Len(events.event_types)
        /\ \A i \in 1..Len(PreparedContent) :
              Len(PreparedContent[i].a) = 0 =>
                  /\ i <= Len(events.event_types)
                  /\ i <= Len(events.player_names)
                  /\ events.player_names[i] \notin {p.text : p \in Players}
                  /\ i <= Len(events.player_links) /\ events.player_links[i] = <<>>
        /\ \A j \in 1..Len(events.player_links) : Len(events.player_links[j]) <= 1

(* C3: after get_events on a fresh MatchData the home side holds the       *)
(* events of the first node group and the away side those of the second.   *)
C3_EachSideHoldsItsOwnEvents ==
    pc.events = "done" =>
        /\ match_info.home_info.events = _prepare_events(soup.event_a)
        /\ match_info.away_info.events = _prepare_events(soup.event_b)

(* C8: when neither event node group is found, get_events leaves           *)
(* events_missing at 1, emits no events and does not raise.                *)
C8_MissingGroupsCounted ==
    (pc.events = "done" /\ soup.event_a = <<>> /\ soup.event_b = <<>>) =>
        /\ events_missing(events_getter) = 1
        /\ match_info.home_info.events = MatchEvents
        /\ match_info.away_info.events = MatchEvents
        /\ exc.events = NoException

(***************************************************************************)
(* Properties of SquadsGetter                                              *)
(***************************************************************************)
TeamsInfoEnded == pc.squads \in {"done", "raised"}

(* The parsed table of the k-th lineup node.                               *)
LineupTable(k) == Head(read_html(soup.lineup[k]))

(* A side's squad holds rows 0..10 of the table, its bench rows 12..end.   *)
SidePartitioned(info, table) ==
    /\ info.squad.columns = squad_columns
    /\ Len(info.squad.data) = Len(SliceTo(table, 11))
    /\ \A i \in 1..Len(info.squad.data) : info.squad.data[i] = table[i]
    /\ info.bench.columns = squad_columns
    /\ Len(info.bench.data) = Len(SliceFrom(table, 12))
    /\ \A i \in 1..Len(info.bench.data) : info.bench.data[i] = table[12 + i]

(* C6: when two lineup tables are found, each side's squad is rows 0..10   *)
(* of its table and its bench rows 12..end, row 11 being in neither.       *)
C6_LineupPartition ==
    (TeamsInfoEnded /\ Len(soup.lineup) = 2) =>
        /\ SidePartitioned(match_info.home_info, LineupTable(1))
        /\ SidePartitioned(match_info.away_info, LineupTable(2))

(* C7: whatever the count of each top-level section, no getter raises.     *)
C7_NoExceptionEscapes ==
    /\ exc.events = NoException
    /\ exc.squads = NoException
    /\ exc.stats = NoException

(* C10: with an empty lineup node list get_teams_info returns without      *)
(* raising, the ledger of the fresh record holds the one entry             *)
(* lineups_missing = 1, and squad and bench of both sides are still the    *)
(* empty defaults.                                                         *)
C10_MissingLineups ==
    (TeamsInfoEnded /\ soup.lineup = <<>>) =>
        /\ pc.squads = "done"
        /\ exc.squads = NoException
        /\ match_info.debug_info.columns = <<"lineups_missing">>
        /\ match_info.debug_info.data = <<1>>
        /\ match_info.home_info.squad = Features(<<>>, <<>>)
        /\ match_info.home_info.bench = Features(<<>>, <<>>)
        /\ match_info.away_info.squad = Features(<<>>, <<>>)
        /\ match_info.away_info.bench = Features(<<>>, <<>>)

(* get_teams_info has run on a document without lineup nodes.              *)
C10_Witness == pc.squads = "done" /\ soup.lineup = <<>>

(***************************************************************************)
(* Properties of StatsGetter                                               *)
(***************************************************************************)
StatsEnded == pc.stats \in {"done", "raised"}

NumTables == Len(soup.table_container)
NumFilteredHeadings == Len(SelectSeq(soup.h2, KeepTableName))

(* The ledger holds an entry name = value / the number of entries of name. *)
HasEntry(name, value) ==
    \E i \in 1..Len(match_info.debug_info.columns) :
        /\ match_info.debug_info.columns[i] = name
        /\ match_info.debug_info.data[i] = value

NumEntries(name) ==
    Cardinality({i \in 1..Len(match_info.debug_info.columns) :
                    match_info.debug_info.columns[i] = name})

StatsBound ==
    /\ Len(match_info.home_info.stats.table) = NumTables
    /\ Len(match_info.home_info.stats.table_names) = NumTables
    /\ \A k \in 1..NumTables :
          match_info.home_info.stats.table[k] = Head(read_html(soup.table_container[k]))

(* C4: with as many table containers as filtered headings the stats are    *)
(* bound, one entry per container, and stats_components_length_miss = 0 is *)
(* appended; otherwise stats_components_length_miss = 1 is appended and    *)
(* the stats of the record stay empty.                                     *)
C4_StatsReconciliation ==
    StatsEnded =>
        IF NumTables = NumFilteredHeadings
        THEN StatsBound /\ HasEntry("stats_components_length_miss", 0)
        ELSE /\ HasEntry("stats_components_length_miss", 1)
             /\ match_info.home_info.stats = MatchStats

(* C5: with as many table containers as filtered headings the stats are    *)
(* bound whatever the number of tab labels, and the ledger holds the tab   *)
(* labels and the filtered headings that show the mismatch.                *)
C5_TabMismatchDoesNotBlock ==
    (StatsEnded /\ NumTables = NumFilteredHeadings) =>
        /\ exc.stats = NoException
        /\ StatsBound
        /\ NumEntries("tab_names") = 1
        /\ NumEntries("table_names") = 1

Flag(collection) == IF collection = <<>> THEN 1 ELSE 0

(* C9: a get_stats call that returns has appended one stats_missing, one   *)
(* table_names_missing and one tab_names_missing entry, each 1 exactly     *)
(* when its own collection is empty, and each of the three counters reads  *)
(* as the absence of its own collection.                                   *)
C9_MissingAccountingOrthogonal ==
    pc.stats = "done" =>
        /\ NumEntries("stats_missing") = 1
        /\ HasEntry("stats_missing", Flag(soup.table_container))
        /\ NumEntries("table_names_missing") = 1
        /\ HasEntry("table_names_missing", Flag(soup.h2))
        /\ NumEntries("tab_names_missing") = 1
        /\ HasEntry("tab_names_missing", Flag(soup.sr_preset))
        /\ stats_missing(stats_getter) = Flag(soup.table_container)
        /\ table_names_missing(stats_getter) = Flag(soup.h2)
        /\ tab_names_missing(stats_getter) = Flag(soup.sr_preset)

(***************************************************************************)
(* The debug ledger under repeated names.  Features.append_feature is      *)
(* called on match_info.debug_info any number of times (up to MaxAppends)  *)
(* before SquadsGetter.get_teams_info runs on the same record.             *)
(***************************************************************************)
LedgerNames == {"lineups_missing", "stats_missing"}
LedgerValues == {0, 1}

debug_info_append_feature ==
    /\ pc.squads \in {"new", "ready"}
    /\ Len(match_info.debug_info.columns) < MaxAppends
    /\ \E name \in LedgerNames : \E value \in LedgerValues :
          match_info' = [match_info EXCEPT !.debug_info = append_feature(@, value, name)]
    /\ UNCHANGED <<soup, events_getter, squads_getter, stats_getter, pc, exc>>

NextLedger == debug_info_append_feature \/ SquadsGetter_init \/ get_teams_info

SpecLedger == InitSquads /\ [][NextLedger]_vars

(***************************************************************************)
(* Properties of the debug ledger                                          *)
(***************************************************************************)
(* The position of the most recent entry appended under name.              *)
LastPosition(columns, name) ==
    CHOOSE i \in 1..Len(columns) :
        /\ columns[i] = name
        /\ \A j \in (i + 1)..Len(columns) : columns[j] # name

IsPrefix(old, new) ==
    /\ Len(old) <= Len(new)
    /\ \A i \in 1..Len(old) : new[i] = old[i]

(* C11: after every step the lookup of a name that is in the ledger gives  *)
(* the value of the most recent append under that name, and the entries    *)
(* that were in the ledger before the step are still there, in order.      *)
C11_LookupReturnsLatest ==
    [][/\ \A name \in LedgerNames :
            (\E i \in 1..Len(match_info'.debug_info.columns) :
                 match_info'.debug_info.columns[i] = name) =>
                Features_getitem(match_info'.debug_info, name) =
                    match_info'.debug_info.data[LastPosition(match_info'.debug_info.columns, name)]
       /\ IsPrefix(match_info.debug_info.columns, match_info'.debug_info.columns)
       /\ IsPrefix(match_info.debug_info.data, match_info'.debug_info.data)]_vars

(* get_teams_info of a new SquadsGetter on the same document and a record  *)
(* whose ledger is empty.                                                  *)
RunOnEmptyLedger ==
    get_teams_info_run(
        [g |-> [constructed |-> TRUE, _lineups |-> soup.lineup, _home_squad |-> None,
                _away_squad |-> None, _lineups_missing |-> 0],
         m |-> MatchData,
         exc |-> NoException])

LastEntries(list, n) == SubSeq(list, Len(list) - n + 1, Len(list))

(* C12: the run of get_teams_info on a record that already holds ledger    *)
(* entries leaves the same squad and bench on both sides, and appends the  *)
(* same entries, as the run on the same document with an empty ledger.     *)
C12_LedgerNotReadBack ==
    TeamsInfoEnded =>
        LET other == RunOnEmptyLedger.m
            n == Len(other.debug_info.columns)
        IN  /\ match_info.home_info.squad = other.home_info.squad
            /\ match_info.home_info.bench = other.home_info.bench
            /\ match_info.away_info.squad = other.away_info.squad
            /\ match_info.away_info.bench = other.away_info.bench
            /\ Len(match_info.debug_info.columns) >= n
            /\ LastEntries(match_info.debug_info.columns, n) = other.debug_info.columns
            /\ LastEntries(match_info.debug_info.data, n) = other.debug_info.data

(***************************************************************************)
(* Order of the events of one _prepare_events call                         *)
(***************************************************************************)
IsSplitNode(node) == node.kind \in {"goal", "substitute_in"} /\ Len(node.a) = 2
IsSplitGoal(node) == node.kind = "goal" /\ Len(node.a) = 2
IsSplitSubstitute(node) == node.kind = "substitute_in" /\ Len(node.a) = 2

(* The split-off event of each of the nodes, in the order of the nodes.    *)
SyntheticOf(nodes) ==
    [i \in 1..Len(nodes) |->
        [type |-> SecondType(nodes[i].kind),
         name |-> nodes[i].a[2].text,
         link |-> <<nodes[i].a[2].href>>,
         minute |-> nodes[i].minute]]

(* The events the call left after its primary events: types, links and     *)
(* minutes from position Len(content) + 1 on, names from the end of the    *)
(* flattened player_names.                                                 *)
SyntheticEvents(content, events) ==
    LET n == Len(content)
        k == Len(events.event_types) - n
        names == Len(events.player_names) - k
    IN  [i \in 1..k |->
            [type |-> events.event_types[n + i],
             name |-> events.player_names[names + i],
             link |-> events.player_links[n + i],
             minute |-> events.minutes[n + i]]]

PrimariesFirst(content, events) ==
    /\ Len(events.event_types) >= Len(content)
    /\ Len(events.minutes) = Len(events.event_types)
    /\ Len(events.player_links) = Len(events.event_types)
    /\ Len(events.player_names) >= Len(events.event_types) - Len(content)
    /\ \A i \in 1..Len(content) :
          /\ events.event_types[i] = content[i].kind
          /\ events.minutes[i] = content[i].minute

(* C13 as stated: the split-off events follow all primary events, in the   *)
(* order of their source nodes whatever their kind.                        *)
C13_SyntheticInSourceOrder ==
    PrepareReturned =>
        /\ PrimariesFirst(PreparedContent, PreparedEvents)
        /\ SyntheticEvents(PreparedContent, PreparedEvents)
             = SyntheticOf(SelectSeq(PreparedContent, IsSplitNode))

(* C13 amended: the split-off events follow all primary events; the        *)
(* substitute_out events come first, in the order of their substitute_in   *)
(* nodes, then the assist events, in the order of their goal nodes.        *)
C13_SyntheticByKindThenSourceOrder ==
    PrepareReturned =>
        /\ PrimariesFirst(PreparedContent, PreparedEvents)
        /\ SyntheticEvents(PreparedContent, PreparedEvents)
             = SyntheticOf(SelectSeq(PreparedContent, IsSplitSubstitute))
                 \o SyntheticOf(SelectSeq(PreparedContent, IsSplitGoal))

(* A call has returned whose content has a two-player goal node before a   *)
(* two-player substitute_in node.                                          *)
C13_Witness ==
    /\ PrepareReturned
    /\ \E i, j \in 1..Len(PreparedContent) :
          /\ i < j
          /\ IsSplitGoal(PreparedContent[i])
          /\ IsSplitSubstitute(PreparedContent[j])

====
